---- MODULE Spec2Model ----
(***************************************************************************)
(* Model of the drone_gui ground station: the wire parser (src/parser.rs)  *)
(* and the application state with its UI system (src/app.rs).              *)
(*                                                                         *)
(* Text is modelled as a sequence of one-character strings, so that        *)
(* prefix stripping, splitting and integer parsing are computed the way    *)
(* the code computes them.                                                 *)
(***************************************************************************)
EXTENDS Integers, Sequences, FiniteSets, TLC

VARIABLES
    \* ---- parser harness -------------------------------------------------
    line,               \* the line handed to a parser / read by the read loop
    parsed,             \* what the last parser call did with `line`
    \* ---- AppState (src/app.rs 16-29) -------------------------------------
    serial_connected,   \* AppState.serial_connected
    uart_sender,        \* AppState.uart_sender : Option<Sender<UartCommand>>
    port_path,          \* AppState.port_path
    send_address,       \* AppState.send_address (text field)
    send_data,          \* AppState.send_data (text field)
    video_texture,      \* AppState.video_texture : Option<TextureHandle>
    video_connected,    \* AppState.video_connected
    \* ---- shared with the background threads ------------------------------
    data_buffer,        \* contents of Arc<Mutex<DataBuffer>>
    video_frame,        \* contents of SharedVideoFrame (Arc<Mutex<Option<..>>>)
    held,               \* held[t] : the mutexes thread t holds
    \* ---- the serial session behind uart::start_uart_thread ---------------
    uart_thread,        \* "none" | "running" | "open_failed" | "closed" | "stopped" | "panicked"
    cmd_queue,          \* commands sent on the channel, not yet taken
    port_opens,         \* calls of uart::start_uart_thread so far
    opened_path,        \* the path handed to the last port open
    \* ---- observations ----------------------------------------------------
    stderr,             \* what the last operation wrote with eprintln!
    last_op,            \* the operation that made the last step
    \* ---- ui_system's position and locals ---------------------------------
    ui_pc,              \* index into ui_system_locks
    frame_data_opt,     \* local of ui_system (app.rs 128)
    orientation,        \* DroneOrientation (roll, pitch, yaw) written at app.rs 151-155
    uart_pc,            \* serial thread: "idle" | "push"
    capture_pc          \* capture thread: "idle" | "publish"

vars == << line, parsed, serial_connected, uart_sender, port_path, send_address,
           send_data, video_texture, video_connected, data_buffer, video_frame, held, uart_thread,
           cmd_queue, port_opens, opened_path, stderr, last_op, ui_pc,
           frame_data_opt, orientation, uart_pc, capture_pc >>

(***************************************************************************)
(* Text helpers                                                            *)
(***************************************************************************)
Digits == {"0", "1", "2", "3", "4", "5", "6", "7", "8", "9"}

DigitVal(c) ==
    CASE c = "0" -> 0 [] c = "1" -> 1 [] c = "2" -> 2 [] c = "3" -> 3
      [] c = "4" -> 4 [] c = "5" -> 5 [] c = "6" -> 6 [] c = "7" -> 7
      [] c = "8" -> 8 [] c = "9" -> 9

AllDigits(s) == \A i \in 1..Len(s) : s[i] \in Digits

RECURSIVE DecValue(_)
\* value of a digit string, most significant digit first
DecValue(s) ==
    IF s = << >> THEN 0
    ELSE 10 * DecValue(SubSeq(s, 1, Len(s) - 1)) + DigitVal(s[Len(s)])

Tail_(s, k) == SubSeq(s, k + 1, Len(s))

IsPrefix(p, s) == Len(p) <= Len(s) /\ SubSeq(s, 1, Len(p)) = p

\* str::strip_prefix : Some(rest) when s starts with p, None otherwise
strip_prefix(s, p) ==
    IF IsPrefix(p, s) THEN [some |-> TRUE, rest |-> Tail_(s, Len(p))]
    ELSE [some |-> FALSE, rest |-> << >>]

RECURSIVE SplitFrom(_, _, _)
\* pieces of s separated by the character sep; cur is the piece being read
SplitFrom(s, sep, cur) ==
    IF s = << >> THEN << cur >>
    ELSE IF Head(s) = sep THEN << cur >> \o SplitFrom(Tail(s), sep, << >>)
    ELSE SplitFrom(Tail(s), sep, Append(cur, Head(s)))

\* str::split(sep).collect() : never empty; "" gives one empty piece
split(s, sep) == SplitFrom(s, sep, << >>)

RECURSIVE Join(_, _)
Join(fields, sep) ==
    IF fields = << >> THEN << >>
    ELSE IF Len(fields) = 1 THEN fields[1]
    ELSE fields[1] \o << sep >> \o Join(Tail(fields), sep)

RECURSIVE StripZeros(_)
\* a digit string without its leading zeros ("007" -> "7", "000" -> "0")
StripZeros(ds) ==
    IF Len(ds) > 1 /\ Head(ds) = "0" THEN StripZeros(Tail(ds)) ELSE ds

\* a <= b for digit strings without leading zeros
NumLeq(a, b) ==
    \/ Len(a) < Len(b)
    \/ /\ Len(a) = Len(b)
       /\ \/ a = b
          \/ \E i \in 1..Len(a) :
                /\ \A j \in 1..(i - 1) : a[j] = b[j]
                /\ DigitVal(a[i]) < DigitVal(b[i])

\* An integer is kept as its sign and the digits of its magnitude without
\* leading zeros (32-bit values exceed TLC's integers).
Num(neg, ds) ==
    LET mag == StripZeros(ds) IN [neg |-> neg /\ mag # << "0" >>, mag |-> mag]
Zero == [neg |-> FALSE, mag |-> << "0" >>]

\* str::parse for a primitive integer type: an optional sign ('+' always,
\* '-' only for a signed type), then one or more decimal digits; an empty
\* string, a lone sign, any other character or a value outside
\* -minMag..maxMag is an error.
ParseInt(s, signed, minMag, maxMag) ==
    LET neg  == signed /\ Len(s) > 0 /\ s[1] = "-"
        sign == Len(s) > 0 /\ (s[1] = "+" \/ neg)
        ds   == IF sign THEN Tail(s) ELSE s
        v    == Num(neg, ds)
    IN  IF ds # << >> /\ AllDigits(ds)
           /\ NumLeq(v.mag, IF v.neg THEN minMag ELSE maxMag)
        THEN [ok |-> TRUE, val |-> v]
        ELSE [ok |-> FALSE, val |-> Zero]

U16Max == << "6", "5", "5", "3", "5" >>
U32Max == << "4", "2", "9", "4", "9", "6", "7", "2", "9", "5" >>
I32Max == << "2", "1", "4", "7", "4", "8", "3", "6", "4", "7" >>
I32MinMag == << "2", "1", "4", "7", "4", "8", "3", "6", "4", "8" >>

parse_u16(s) == ParseInt(s, FALSE, << "0" >>, U16Max)
parse_u32(s) == ParseInt(s, FALSE, << "0" >>, U32Max)
parse_i32(s) == ParseInt(s, TRUE, I32MinMag, I32Max)

(***************************************************************************)
(* Wire parser (src/parser.rs)                                             *)
(***************************************************************************)
RcvPrefix == << "+", "R", "C", "V", "=" >>
LogPrefix == << "L", "O", "G", ":" >>

\* Outcomes of a parser call.  "panic" is the thread unwinding: an index out
\* of bounds (parts[i]) or todo!().
NoRcv  == [from |-> Zero, length |-> Zero, message |-> << >>, rssi |-> Zero, snr |-> Zero]
Result(f, k, r, t, g) == [fn |-> f, kind |-> k, rcv |-> r, telem |-> t, log |-> g]
NotParsed == Result("none", "None", NoRcv, << >>, << >>)

\* parse_rcv: the fields are read in the order of the let statements; an
\* index past the end of parts panics, a failed parse returns None.  The
\* receipt time (Local::now()) is not modelled.
parse_rcv(l) ==
    LET sp      == strip_prefix(l, RcvPrefix)
        parts   == split(sp.rest, ",")
        address == parse_u32(parts[1])
        length  == parse_u32(parts[2])
        rssi    == parse_i32(parts[4])
        snr     == parse_i32(parts[5])
        none    == Result("parse_rcv", "None", NoRcv, << >>, << >>)
        panic   == Result("parse_rcv", "panic", NoRcv, << >>, << >>)
    IN  IF ~sp.some THEN none
        ELSE IF ~address.ok THEN none
        ELSE IF Len(parts) < 2 THEN panic
        ELSE IF ~length.ok THEN none
        ELSE IF Len(parts) < 3 THEN panic
        ELSE IF Len(parts) < 4 THEN panic
        ELSE IF ~rssi.ok THEN none
        ELSE IF Len(parts) < 5 THEN panic
        ELSE IF ~snr.ok THEN none
        ELSE Result("parse_rcv", "Some",
                    [from |-> address.val, length |-> length.val,
                     message |-> parts[3], rssi |-> rssi.val, snr |-> snr.val],
                    << >>, << >>)

\* str::splitn(2, ':') : the text before the first ':' and, when there is a
\* ':', the text after it
splitn2(l, sep) ==
    LET idx == {i \in 1..Len(l) : l[i] = sep}
        k   == CHOOSE i \in idx : \A j \in idx : i <= j
    IN  IF idx = {} THEN << l >>
        ELSE << SubSeq(l, 1, k - 1), Tail_(l, k) >>

\* parse_telemetry: None without a ':' or with a header other than "T";
\* every other line reaches todo!()
parse_telemetry(l) ==
    LET parts == splitn2(l, ":")
        none  == Result("parse_telemetry", "None", NoRcv, << >>, << >>)
        panic == Result("parse_telemetry", "panic", NoRcv, << >>, << >>)
    IN  IF Len(parts) < 2 THEN none
        ELSE IF parts[1] # << "T" >> THEN none
        ELSE panic

\* parse_log: the text after "LOG:"
parse_log(l) ==
    LET sp == strip_prefix(l, LogPrefix)
    IN  IF sp.some THEN Result("parse_log", "Some", NoRcv, << >>, sp.rest)
        ELSE Result("parse_log", "None", NoRcv, << >>, << >>)

(***************************************************************************)
(* Input lines                                                             *)
(***************************************************************************)
MaxRcvFields   == 6     \* comma-separated pieces after "+RCV="
MaxTelemFields == 15    \* colon-separated pieces after the tag

\* field texts: empty, a small number, a negative number, a word
RcvTokens ==
    { << >>, << "7" >>, << "-", "4", "0" >>, << "h", "i" >> }

TwoTo32 == << "4", "2", "9", "4", "9", "6", "7", "2", "9", "6" >>
TwoTo31 == << "2", "1", "4", "7", "4", "8", "3", "6", "4", "8" >>

\* fields at and past the limits of u32 and i32, and a '+' sign
RcvLimitFields ==
    LET hi == << "h", "i" >>
        n7 == << "7" >>
    IN  { << U32Max, n7, hi, n7, n7 >>,
          << TwoTo32, n7, hi, n7, n7 >>,
          << n7, TwoTo32, hi, n7, n7 >>,
          << n7, n7, hi, I32Max, n7 >>,
          << n7, n7, hi, TwoTo31, n7 >>,
          << n7, n7, hi, << "-" >> \o TwoTo31, n7 >>,
          << n7, n7, hi, n7, << "-" >> \o TwoTo32 >>,
          << << "+" >> \o n7, n7, hi, << "+" >> \o n7, << "-", "0" >> >>,
          << << "0", "0" >> \o n7, n7, hi, n7, n7 >> }

RcvLines ==
    { p \o Join(f, ",") :
        p \in { RcvPrefix, << "+", "R", "C", "V" >> },
        f \in RcvLimitFields \cup
              UNION { [1..n -> RcvTokens] : n \in 1..MaxRcvFields } }

GoodFloat(i) ==
    IF i % 2 = 1 THEN << "0", ".", "5" >> ELSE << "-", "1", ".", "2", "5" >>

BadFloats == { << "n", "a", "n" >>, << "1" >>, << >> }

TelemTags == { << "T" >>, << "X" >>, << "T", "E", "L", "E", "M" >> }

\* tag, then n fields each preceded by ':'; at most one field is bad
TelemFieldSeqs ==
    UNION { { [i \in 1..n |-> GoodFloat(i)] } \cup
            { [i \in 1..n |-> IF i = b THEN bad ELSE GoodFloat(i)] :
                b \in 1..n, bad \in BadFloats } : n \in 0..MaxTelemFields }

RECURSIVE ColonFields(_)
ColonFields(f) ==
    IF f = << >> THEN << >> ELSE << ":" >> \o Head(f) \o ColonFields(Tail(f))

TelemLines == { t \o ColonFields(f) : t \in TelemTags, f \in TelemFieldSeqs }

LogLines ==
    { << >>, LogPrefix, LogPrefix \o << "h", "i" >>,
      << "N", "O", "T" >> \o LogPrefix \o << "x" >> }

Lines == RcvLines \cup TelemLines \cup LogLines

(***************************************************************************)
(* Application state (src/app.rs)                                          *)
(***************************************************************************)
MaxQueue == 2      \* commands waiting on the channel
MaxOpens == 3      \* calls of uart::start_uart_thread
BufferCap == 3     \* capacity of each sequence of the DataBuffer

PortPaths    == { "/dev/ttyAMA1", "/dev/ttyUSB0" }
DataTexts    == { "", "arm" }
AddressTexts ==
    { << "0" >>, << >>, << "a", "b" >>, << "-", "1" >>,
      << "6", "5", "5", "3", "5" >>, << "6", "5", "5", "3", "6" >> }

NoSender     == [some |-> FALSE, chan |-> 0]
SomeSender(c) == [some |-> TRUE, chan |-> c]
NoFrame      == 0
NoTexture    == 0
EmptyBuffer  == [data |-> << >>, logs |-> << >>, received |-> << >>]

parserVars  == << line, parsed >>
appVars     == << serial_connected, uart_sender, port_path, send_address, send_data >>
videoVars   == << video_texture, video_connected, video_frame, frame_data_opt >>
sessionVars == << uart_thread, cmd_queue, port_opens, opened_path >>
threadVars  == << held, ui_pc, uart_pc, capture_pc, orientation >>

\* AppState::default(), with no thread started
Default ==
    /\ parsed = NotParsed
    /\ serial_connected = FALSE
    /\ uart_sender = NoSender
    /\ port_path = "/dev/ttyAMA1"
    /\ send_address = << "0" >>
    /\ send_data = ""
    /\ video_texture = NoTexture
    /\ video_connected = FALSE
    /\ data_buffer = EmptyBuffer
    /\ video_frame = NoFrame
    /\ held = [t \in {"ui", "uart", "capture"} |-> {}]
    /\ uart_thread = "none"
    /\ cmd_queue = << >>
    /\ port_opens = 0
    /\ opened_path = ""
    /\ stderr = << >>
    /\ last_op = "init"
    /\ ui_pc = 1
    /\ frame_data_opt = NoFrame
    /\ orientation = << >>
    /\ uart_pc = "idle"
    /\ capture_pc = "idle"

\* uart::start_uart_thread(port_path, data_buffer): creates the command
\* channel, starts the session thread, which opens the port, and returns the
\* sending half.  `opened` is whether the port opens.
uart_start_uart_thread(opened) ==
    /\ port_opens' = port_opens + 1
    /\ opened_path' = port_path
    /\ uart_thread' = IF opened THEN "running" ELSE "open_failed"
    /\ cmd_queue' = << >>

start_without_guard(opened) ==
    /\ uart_start_uart_thread(opened)
    /\ uart_sender' = SomeSender(port_opens + 1)
    /\ serial_connected' = TRUE
    /\ UNCHANGED data_buffer

start_without_sender(opened) ==
    IF serial_connected
    THEN UNCHANGED << uart_sender, serial_connected, data_buffer, sessionVars >>
    ELSE /\ uart_start_uart_thread(opened)
         /\ serial_connected' = TRUE
         /\ UNCHANGED << uart_sender, data_buffer >>

\* AppState::start_uart_thread
AppState_start_uart_thread(opened) ==
    IF serial_connected
    THEN UNCHANGED << uart_sender, serial_connected, data_buffer, sessionVars >>
    ELSE /\ uart_start_uart_thread(opened)
         /\ uart_sender' = SomeSender(port_opens + 1)
         /\ serial_connected' = TRUE
         /\ UNCHANGED data_buffer

\* mpsc::Sender::send fails once the receiving half, owned by the session
\* thread, is gone
ReceiverAlive == uart_thread = "running"

InvalidAddress(a) == [msg |-> "Invalid address", arg |-> a]
FailedToSend == [msg |-> "Failed to send command", arg |-> << >>]

\* AppState::send_data (&self: no field of AppState changes)
AppState_send_data ==
    LET address == parse_u16(send_address)
        cmd     == [address |-> DecValue(address.val.mag), data |-> send_data]
    IN  /\ UNCHANGED appVars
        /\ IF uart_sender.some
           THEN IF address.ok
                THEN IF ReceiverAlive
                     THEN /\ cmd_queue' = Append(cmd_queue, cmd)
                          /\ stderr' = << >>
                     ELSE /\ cmd_queue' = cmd_queue
                          /\ stderr' = << FailedToSend >>
                ELSE /\ cmd_queue' = cmd_queue
                     /\ stderr' = << InvalidAddress(send_address) >>
           ELSE /\ cmd_queue' = cmd_queue
                /\ stderr' = << >>

(***************************************************************************)
(* Requests made of the application                                        *)
(***************************************************************************)
\* a start request: AppState::start_uart_thread is called
StartRequest ==
    /\ port_opens < MaxOpens
    /\ \E opened \in BOOLEAN : AppState_start_uart_thread(opened)
    /\ stderr' = << >>
    /\ last_op' = "start"
    /\ UNCHANGED << port_path, send_address, send_data >>
    /\ UNCHANGED << parserVars, videoVars, threadVars >>

\* the "Connect" button of the top panel (app.rs 171-182)
ConnectButton ==
    /\ port_opens < MaxOpens
    /\ IF ~serial_connected
       THEN \E opened \in BOOLEAN : AppState_start_uart_thread(opened)
       ELSE UNCHANGED << uart_sender, serial_connected, data_buffer, sessionVars >>
    /\ stderr' = << >>
    /\ last_op' = "connect_click"
    /\ UNCHANGED << port_path, send_address, send_data >>
    /\ UNCHANGED << parserVars, videoVars, threadVars >>

\* the "Send" button (app.rs 209-211)
SendButton ==
    /\ Len(cmd_queue) < MaxQueue
    /\ AppState_send_data
    /\ last_op' = "send"
    /\ UNCHANGED << uart_thread, port_opens, opened_path, data_buffer >>
    /\ UNCHANGED << parserVars, videoVars, threadVars >>

\* the text fields (app.rs 170, 206, 208)
EditPortPath ==
    /\ \E p \in PortPaths : port_path' = p
    /\ stderr' = << >>
    /\ last_op' = "edit"
    /\ UNCHANGED << serial_connected, uart_sender, send_address, send_data >>
    /\ UNCHANGED << data_buffer, parserVars, videoVars, sessionVars, threadVars >>

EditSendAddress ==
    /\ \E a \in AddressTexts : send_address' = a
    /\ stderr' = << >>
    /\ last_op' = "edit"
    /\ UNCHANGED << serial_connected, uart_sender, port_path, send_data >>
    /\ UNCHANGED << data_buffer, parserVars, videoVars, sessionVars, threadVars >>

EditSendData ==
    /\ \E d \in DataTexts : send_data' = d
    /\ stderr' = << >>
    /\ last_op' = "edit"
    /\ UNCHANGED << serial_connected, uart_sender, port_path, send_address >>
    /\ UNCHANGED << data_buffer, parserVars, videoVars, sessionVars, threadVars >>

(***************************************************************************)
(* The serial session thread, as far as the application sees it            *)
(***************************************************************************)
\* a read or write on the port fails: the session closes
IoFailure ==
    /\ uart_thread = "running"
    /\ uart_thread' = "closed"
    /\ stderr' = << >>
    /\ last_op' = "io_failure"
    /\ UNCHANGED << cmd_queue, port_opens, opened_path, data_buffer >>
    /\ UNCHANGED << appVars, parserVars, videoVars, threadVars >>

\* the session takes the next command off the channel and writes it out
TakeCommand ==
    /\ uart_thread = "running"
    /\ cmd_queue # << >>
    /\ cmd_queue' = Tail(cmd_queue)
    /\ stderr' = << >>
    /\ last_op' = "take_command"
    /\ UNCHANGED << uart_thread, port_opens, opened_path, data_buffer >>
    /\ UNCHANGED << appVars, parserVars, videoVars, threadVars >>

Init == line = << >> /\ Default

Next ==
    \/ StartRequest
    \/ ConnectButton
    \/ SendButton
    \/ EditPortPath
    \/ EditSendAddress
    \/ EditSendData
    \/ IoFailure
    \/ TakeCommand

Spec == Init /\ [][Next]_vars

(***************************************************************************)
(* The parsers applied to one line                                         *)
(***************************************************************************)
InitParse == line \in Lines /\ Default

CallParseRcv ==
    /\ parsed.fn = "none"
    /\ parsed' = parse_rcv(line)
    /\ last_op' = "parse"
    /\ UNCHANGED << line, data_buffer, stderr >>
    /\ UNCHANGED << appVars, videoVars, sessionVars, threadVars >>

CallParseTelemetry ==
    /\ parsed.fn = "none"
    /\ parsed' = parse_telemetry(line)
    /\ last_op' = "parse"
    /\ UNCHANGED << line, data_buffer, stderr >>
    /\ UNCHANGED << appVars, videoVars, sessionVars, threadVars >>

CallParseLog ==
    /\ parsed.fn = "none"
    /\ parsed' = parse_log(line)
    /\ last_op' = "parse"
    /\ UNCHANGED << line, data_buffer, stderr >>
    /\ UNCHANGED << appVars, videoVars, sessionVars, threadVars >>

NextParse ==
    \/ CallParseRcv
    \/ CallParseTelemetry
    \/ CallParseLog

SpecParse == InitParse /\ [][NextParse]_vars

(***************************************************************************)
(* Properties of the parsers, under SpecParse                              *)
(***************************************************************************)
\* the pieces after "+RCV=", as the claim counts them
RcvFields(l) == split(strip_prefix(l, RcvPrefix).rest, ",")

\* C1: parse_rcv returns nothing, without panicking, for every line that
\* lacks the "+RCV=" prefix or has fewer than 5 comma-separated fields after
\* it (1, 2, 3 or 4 fields, the empty remainder included).
C1_RcvRejectsShortLines ==
    ( /\ parsed.fn = "parse_rcv"
      /\ \/ ~IsPrefix(RcvPrefix, line)
         \/ Len(RcvFields(line)) < 5 )
    => parsed.kind = "None"

\* an unsigned decimal integer that fits the u32 field it is stored in
IsUnsignedDecimal(s) ==
    s # << >> /\ AllDigits(s) /\ NumLeq(StripZeros(s), U32Max)

\* a signed decimal integer that fits the i32 field it is stored in
IsSignedDecimal(s) ==
    LET neg == Len(s) > 0 /\ s[1] = "-"
        ds  == IF neg THEN Tail(s) ELSE s
    IN  /\ ds # << >>
        /\ AllDigits(ds)
        /\ NumLeq(StripZeros(ds), IF neg THEN I32MinMag ELSE I32Max)

SignedValue(s) ==
    IF s[1] = "-" THEN Num(TRUE, Tail(s)) ELSE Num(FALSE, s)

\* "+RCV=<addr>,<len>,<payload>,<rssi>,<snr>": addr and len are the first two
\* pieces, rssi and snr the last two, the payload everything in between,
\* its commas included
IsRcvFrame(l) ==
    LET f == RcvFields(l)
        n == Len(f)
    IN  /\ IsPrefix(RcvPrefix, l)
        /\ n >= 5
        /\ IsUnsignedDecimal(f[1])
        /\ IsUnsignedDecimal(f[2])
        /\ IsSignedDecimal(f[n - 1])
        /\ IsSignedDecimal(f[n])

RcvFrameValue(l) ==
    LET f == RcvFields(l)
        n == Len(f)
    IN  [from    |-> Num(FALSE, f[1]),
         length  |-> Num(FALSE, f[2]),
         message |-> Join(SubSeq(f, 3, n - 2), ","),
         rssi    |-> SignedValue(f[n - 1]),
         snr     |-> SignedValue(f[n])]

\* C2: for every line "+RCV=<addr>,<len>,<payload>,<rssi>,<snr>", the payload
\* being any text, commas included, parse_rcv returns the message with
\* from = addr, length = len, message = the whole payload, rssi and snr.
C2_RcvRecoversFrame ==
    (parsed.fn = "parse_rcv" /\ IsRcvFrame(line))
    => (parsed.kind = "Some" /\ parsed.rcv = RcvFrameValue(line))

TelemFieldCount == 14

\* [sign]whole.decimal
IsDecimalFloat(s) ==
    LET ds   == IF Len(s) > 0 /\ s[1] \in {"-", "+"} THEN Tail(s) ELSE s
        dots == {i \in 1..Len(ds) : ds[i] = "."}
    IN  /\ Cardinality(dots) = 1
        /\ \A i \in 1..Len(ds) : ds[i] \in Digits \cup {"."}
        /\ 1 \notin dots
        /\ Len(ds) \notin dots

IsTelemetryFrame(l) ==
    LET f == split(l, ":")
    IN  /\ Len(f) = TelemFieldCount + 1
        /\ f[1] = << "T" >>
        /\ \A i \in 2..Len(f) : IsDecimalFloat(f[i])

\* C3: parse_telemetry completes normally on every line: it returns the 14
\* fields positionally for "T" followed by exactly 14 valid decimal fields,
\* and nothing for any other line.
C3_TelemetryTotal ==
    parsed.fn = "parse_telemetry"
    => /\ parsed.kind # "panic"
       /\ IF IsTelemetryFrame(line)
          THEN parsed.kind = "Some" /\ parsed.telem = Tail(split(line, ":"))
          ELSE parsed.kind = "None"

(***************************************************************************)
(* Properties of the serial session, under Spec                            *)
(***************************************************************************)
StartOps == {"start", "connect_click"}

\* C4: starting is idempotent: a start request made while the session is
\* connected does not call uart::start_uart_thread again and leaves
\* uart_sender, data_buffer and serial_connected unchanged, so the port is
\* opened at most once while the session is connected.
C4_StartIdempotent ==
    /\ [](serial_connected => port_opens <= 1)
    /\ [][ (serial_connected /\ last_op' \in StartOps)
           => UNCHANGED << uart_sender, data_buffer, serial_connected,
                           port_opens >> ]_vars

\* a start request has been made while the session was connected (the
\* session had already closed, which only a connected session does)
C4_Witness ==
    /\ last_op \in StartOps
    /\ serial_connected
    /\ uart_thread = "closed"
    /\ port_opens = 1

\* C5: after a mid-stream I/O failure has closed the session, the closed
\* state shows in the caller-visible status, and a later start request is
\* not a no-op: it starts a new session and opens the port again.
C5_RetryAfterFailure ==
    [][ (uart_thread = "closed" /\ last_op' \in StartOps)
        => /\ ~serial_connected
           /\ port_opens' = port_opens + 1
           /\ uart_thread' # "closed" ]_vars

\* C6: when the port fails to open the session is not marked connected:
\* serial_connected is true only after a start whose port open succeeded.
C6_OpenFailureNotConnected ==
    uart_thread = "open_failed" => ~serial_connected

\* C7: a send request enqueues a command only when the address text parses
\* as a u16; for every other address text nothing is enqueued, the request
\* is reported and the application state is unchanged.
C7_SendValidatesAddress ==
    [][ last_op' = "send"
        => /\ cmd_queue' # cmd_queue => parse_u16(send_address).ok
           /\ ~parse_u16(send_address).ok
              => /\ cmd_queue' = cmd_queue
                 /\ stderr' # << >>
                 /\ UNCHANGED appVars ]_vars

\* C10: uart_sender is present exactly when serial_connected is true; hence
\* a send request made before any start request enqueues no command and
\* changes no state.
C10_SenderIffConnected ==
    /\ [](uart_sender.some <=> serial_connected)
    /\ [][ (last_op' = "send" /\ port_opens = 0)
           => UNCHANGED << appVars, sessionVars, data_buffer >> ]_vars

\* a send request made before any start request
C10_Witness ==
    /\ last_op = "send"
    /\ port_opens = 0
    /\ ~uart_sender.some
    /\ ~serial_connected

(***************************************************************************)
(* The read loop of the serial session                                     *)
(***************************************************************************)
\* DataBuffer push: append, evicting the oldest element at capacity
Push(q, x) ==
    IF Len(q) >= BufferCap THEN Append(Tail(q), x) ELSE Append(q, x)

RcvLine(f) == RcvPrefix \o Join(f, ",")

ReadLines ==
    { RcvLine(<< << "7" >>, << "7" >>, << "h", "i" >>, << "-", "4", "0" >>, << "7" >> >>),
      RcvLine(<< << "7" >> >>),
      RcvLine(<< << "h", "i" >> >>),
      << "T" >> \o ColonFields([i \in 1..TelemFieldCount |-> GoodFloat(i)]),
      << "X" >> \o ColonFields(<< GoodFloat(1) >>),
      LogPrefix \o << "h", "i" >>,
      LogPrefix,
      << "h", "i" >>,
      << >> }

\* a session that has been started and whose port is open
Started ==
    /\ parsed = NotParsed
    /\ serial_connected = TRUE
    /\ uart_sender = SomeSender(1)
    /\ port_path = "/dev/ttyAMA1"
    /\ send_address = << "0" >>
    /\ send_data = ""
    /\ video_texture = NoTexture
    /\ data_buffer = EmptyBuffer
    /\ video_frame = NoFrame
    /\ held = [t \in {"ui", "uart", "capture"} |-> {}]
    /\ uart_thread = "running"
    /\ cmd_queue = << >>
    /\ port_opens = 1
    /\ opened_path = "/dev/ttyAMA1"
    /\ stderr = << >>
    /\ ui_pc = 1
    /\ frame_data_opt = NoFrame
    /\ orientation = << >>
    /\ uart_pc = "idle"
    /\ capture_pc = "idle"

\* one line through the decoders in their fixed order: parse_rcv, then
\* parse_telemetry, then parse_log; the first match is stored, a line that
\* matches none is dropped, a panicking decoder unwinds the thread
ReadLine ==
    /\ uart_thread = "running"
    /\ \E l \in ReadLines :
        LET r == parse_rcv(l)
            t == parse_telemetry(l)
            g == parse_log(l)
            decided == IF r.kind # "None" THEN r
                       ELSE IF t.kind # "None" THEN t
                       ELSE g
        IN  /\ line' = l
            /\ parsed' = decided
            /\ uart_thread' = IF decided.kind = "panic" THEN "panicked" ELSE "running"
            /\ data_buffer' =
                 IF decided.kind # "Some" THEN data_buffer
                 ELSE IF decided.fn = "parse_rcv"
                 THEN [data_buffer EXCEPT !.received = Push(@, decided.rcv)]
                 ELSE IF decided.fn = "parse_telemetry"
                 THEN [data_buffer EXCEPT !.data = Push(@, decided.telem)]
                 ELSE [data_buffer EXCEPT !.logs = Push(@, decided.log)]
    /\ last_op' = "read_line"
    /\ UNCHANGED << stderr, cmd_queue, port_opens, opened_path >>
    /\ UNCHANGED << appVars, videoVars, threadVars >>

\* reading from the port fails
ReadError ==
    /\ uart_thread = "running"
    /\ uart_thread' = "closed"
    /\ last_op' = "io_failure"
    /\ UNCHANGED << stderr, cmd_queue, port_opens, opened_path, data_buffer >>
    /\ UNCHANGED << appVars, parserVars, videoVars, threadVars >>

\* the session is told to stop
StopSignal ==
    /\ uart_thread = "running"
    /\ uart_thread' = "stopped"
    /\ last_op' = "stop"
    /\ UNCHANGED << stderr, cmd_queue, port_opens, opened_path, data_buffer >>
    /\ UNCHANGED << appVars, parserVars, videoVars, threadVars >>

InitRead ==
    /\ line = << >>
    /\ video_connected = FALSE
    /\ last_op = "start"
    /\ Started

NextRead ==
    \/ ReadLine
    \/ ReadError
    \/ StopSignal

SpecRead == InitRead /\ [][NextRead]_vars

\* C8: the read loop never stops because of the content of a line: a line
\* that matches no frame kind or fails validation is dropped and the loop
\* goes on; the loop ends only on an I/O failure or a stop signal.
C8_ReadLoopSurvivesLines ==
    [][ /\ last_op' = "read_line" => uart_thread' = "running"
        /\ (uart_thread = "running" /\ uart_thread' # "running")
           => last_op' \in {"io_failure", "stop"} ]_vars

(***************************************************************************)
(* ui_system and the locks it shares with the two background threads       *)
(***************************************************************************)
MaxFrame == 2      \* distinct frames the capture thread publishes
Frames == 1..MaxFrame

Lock(m, u)   == [op |-> "lock", m |-> m, use |-> u]
Unlock(m, u) == [op |-> "unlock", m |-> m, use |-> u]

ui_system_locks_nested ==
    << Lock("video_frame", "frame"),
       Lock("data_buffer", "orientation"),
       Unlock("data_buffer", "none"),
       Unlock("video_frame", "texture"),
       Lock("data_buffer", "logs"),        Unlock("data_buffer", "none"),
       Lock("data_buffer", "attitude"),    Unlock("data_buffer", "none"),
       Lock("data_buffer", "pid"),         Unlock("data_buffer", "none"),
       Lock("data_buffer", "current"),     Unlock("data_buffer", "none") >>

\* the mutex acquisitions and releases of one run of ui_system, in program
\* order: app.rs 128-132 (frame clone; the guard ends with the statement,
\* the texture is set after it), 149-157, 240-255, 263-284, 306-328, 335-351
ui_system_locks ==
    << Lock("video_frame", "frame"),       Unlock("video_frame", "texture"),
       Lock("data_buffer", "orientation"), Unlock("data_buffer", "none"),
       Lock("data_buffer", "logs"),        Unlock("data_buffer", "none"),
       Lock("data_buffer", "attitude"),    Unlock("data_buffer", "none"),
       Lock("data_buffer", "pid"),         Unlock("data_buffer", "none"),
       Lock("data_buffer", "current"),     Unlock("data_buffer", "none") >>

Free(m) == \A t \in DOMAIN held : m \notin held[t]

\* Mutex::lock blocks until the mutex is free (also when the caller itself
\* holds it)
Acquire(t, m) == Free(m) /\ held' = [held EXCEPT ![t] = @ \cup {m}]
Release(t, m) == held' = [held EXCEPT ![t] = @ \ {m}]

\* one step of ui_system; after the last one the next frame starts over
UiStep ==
    LET ins == ui_system_locks[ui_pc]
    IN  /\ IF ins.op = "lock" THEN Acquire("ui", ins.m) ELSE Release("ui", ins.m)
        /\ frame_data_opt' = IF ins.use = "frame" THEN video_frame ELSE frame_data_opt
        /\ video_texture' =
             IF ins.use = "texture" /\ frame_data_opt # NoFrame
             THEN frame_data_opt ELSE video_texture
        /\ orientation' =
             IF ins.use = "orientation" /\ data_buffer.data # << >>
             THEN SubSeq(data_buffer.data[Len(data_buffer.data)], 1, 3)
             ELSE orientation
        /\ ui_pc' = IF ui_pc = Len(ui_system_locks) THEN 1 ELSE ui_pc + 1
        /\ last_op' = "ui"
        /\ UNCHANGED << video_frame, video_connected, data_buffer, stderr >>
        /\ UNCHANGED << uart_pc, capture_pc >>
        /\ UNCHANGED << appVars, parserVars, sessionVars >>

\* the serial thread stores a decoded log line under the buffer's lock
UartLock ==
    /\ uart_thread = "running"
    /\ uart_pc = "idle"
    /\ Acquire("uart", "data_buffer")
    /\ uart_pc' = "push"
    /\ last_op' = "uart"
    /\ UNCHANGED << ui_pc, capture_pc, orientation, data_buffer, stderr >>
    /\ UNCHANGED << appVars, parserVars, videoVars, sessionVars >>

UartPush ==
    /\ uart_pc = "push"
    /\ \E l \in {LogPrefix, LogPrefix \o << "h", "i" >>} :
          data_buffer' = [data_buffer EXCEPT !.logs = Push(@, parse_log(l).log)]
    /\ Release("uart", "data_buffer")
    /\ uart_pc' = "idle"
    /\ last_op' = "uart"
    /\ UNCHANGED << ui_pc, capture_pc, orientation, stderr >>
    /\ UNCHANGED << appVars, parserVars, videoVars, sessionVars >>

\* the capture thread overwrites the frame slot under its lock
CaptureLock ==
    /\ video_connected
    /\ capture_pc = "idle"
    /\ Acquire("capture", "video_frame")
    /\ capture_pc' = "publish"
    /\ last_op' = "capture"
    /\ UNCHANGED << ui_pc, uart_pc, orientation, data_buffer, stderr >>
    /\ UNCHANGED << appVars, parserVars, videoVars, sessionVars >>

CapturePublish ==
    /\ capture_pc = "publish"
    /\ \E f \in Frames : video_frame' = f
    /\ Release("capture", "video_frame")
    /\ capture_pc' = "idle"
    /\ last_op' = "capture"
    /\ UNCHANGED << ui_pc, uart_pc, orientation, data_buffer, stderr >>
    /\ UNCHANGED << video_texture, video_connected, frame_data_opt >>
    /\ UNCHANGED << appVars, parserVars, sessionVars >>

\* both connections have been made
InitLocks ==
    /\ line = << >>
    /\ video_connected = TRUE
    /\ last_op = "start"
    /\ Started

NextLocks ==
    \/ UiStep
    \/ UartLock
    \/ UartPush
    \/ CaptureLock
    \/ CapturePublish

SpecLocks == InitLocks /\ [][NextLocks]_vars

UiNext == ui_system_locks[ui_pc]

\* C9: the consumer never holds the data_buffer lock and the video_frame
\* lock at the same time, and never acquires data_buffer while holding it:
\* each acquisition is released before the next one.
C9_NoNestedLocks ==
    /\ ~({"data_buffer", "video_frame"} \subseteq held["ui"])
    /\ UiNext.op = "lock" => held["ui"] = {}
    /\ UiNext.op = "unlock" => held["ui"] = {UiNext.m}

\* the consumer holds data_buffer in its last section while the capture
\* thread holds video_frame and the serial thread waits for data_buffer
C9_Witness ==
    /\ ui_pc = Len(ui_system_locks)
    /\ held["ui"] = {"data_buffer"}
    /\ held["capture"] = {"video_frame"}
    /\ uart_pc = "idle"
    /\ video_texture # NoTexture

====
